---- MODULE Spec2Model ----
(***************************************************************************)
(* day15-pynautobot-api.py: six get-or-create resolvers run in dependency  *)
(* order by main against a remote Nautobot instance.  Every remote request *)
(* (a collection's get or create) is one atomic step; the remote answers   *)
(* with a record, with None, or by raising RequestError.                   *)
(***************************************************************************)
EXTENDS Integers, Sequences, FiniteSets, TLC

\* Number of invocations of the script that are modelled.
NumRuns == 2

Runs == 1..NumRuns

\* ---------------------------------------------------------------- values

\* Python's None for a record handle; every real record has an id > 0.
None == [id |-> 0]

\* Truthiness of a record handle (`if location_type:`).
Truthy(h) == h.id # 0

\* os.environ.get(...) returns None for an unset variable.
EnvUnset == "<None>"

\* What NAUTOBOT_API_URL and NAUTOBOT_API_TOKEN may hold when main reads them.
UrlValues == {EnvUnset, "", "https://nautobot.example"}

TokenValues == {EnvUnset, "", "0123456789abcdef"}

\* The hard-coded example data of main.
location_type_name == "Campus"

location_name == "MyCampusLocation"

manufacturer_name == "Cisco"

device_type_model == "C9300-48P"

role_name == "Access Switch"

device_name == "myswitch001"

\* The six collections, in the attribute names the client gives them.
Kinds == {"location_types", "locations", "manufacturers", "device_types", "roles", "devices"}

\* ---------------------------------------------------------------- state

VARIABLES
    remote,   \* remote[kind]: the records the remote system holds
    pc,       \* pc[r]: the remote call run r is about to issue, or how it ended
    nb,       \* nb[r]: whether run r has constructed its pynautobot.api client
    locals,   \* locals[r]: main's local variables
    calls,    \* calls[r]: every get/create call run r has issued, in order
    stdout    \* stdout[r]: the lines run r has printed

vars == <<remote, pc, nb, locals, calls, stdout>>

\* ---------------------------------------------------------------- remote

\* Records that may exist on the remote system before the first run.  The
\* first six are the records the script looks for (created by hand, with
\* attributes that differ from the script's own); the rest share a name or a
\* model with them but differ in the rest of the uniqueness key.
SeedLocationType == [id |-> 1, name |-> "Campus", description |-> <<"hand-made">>,
                     content_types |-> {"dcim.device", "dcim.rack"}]

SeedLocation == [id |-> 2, name |-> "MyCampusLocation", location_type |-> 1, status |-> "Planned"]

SeedManufacturer == [id |-> 3, name |-> "Cisco"]

SeedDeviceType == [id |-> 4, model |-> "C9300-48P", manufacturer |-> 3]

SeedRole == [id |-> 5, name |-> "Access Switch", description |-> <<"hand-made">>,
             content_types |-> {"dcim.device"}]

SeedDevice == [id |-> 6, name |-> "myswitch001", device_type |-> 4, role |-> 5,
               location |-> 2, status |-> "Planned"]

SeedOtherLocation == [id |-> 7, name |-> "OtherSite", location_type |-> 1, status |-> "Active"]

SeedOtherDevice == [id |-> 8, name |-> "myswitch001", device_type |-> 4, role |-> 5,
                    location |-> 7, status |-> "Active"]

Seeds ==
    [location_types |-> {SeedLocationType},
     locations      |-> {SeedLocation, SeedOtherLocation},
     manufacturers  |-> {SeedManufacturer},
     device_types   |-> {SeedDeviceType},
     roles          |-> {SeedRole},
     devices        |-> {SeedDevice, SeedOtherDevice}]

Ids(store, kind) == {rec.id : rec \in store[kind]}

\* A store whose foreign keys all point at records it holds.
Consistent(store) ==
    /\ \A l \in store["locations"] : l.location_type \in Ids(store, "location_types")
    /\ \A t \in store["device_types"] : t.manufacturer \in Ids(store, "manufacturers")
    /\ \A d \in store["devices"] :
          /\ d.device_type \in Ids(store, "device_types")
          /\ d.role \in Ids(store, "roles")
          /\ d.location \in Ids(store, "locations")

\* The attributes that identify a record of each kind on the remote system.
UniqueKey(kind) ==
    CASE kind = "device_types" -> {"model", "manufacturer"}
      [] kind = "devices" -> {"name", "location"}
      [] OTHER -> {"name"}

\* endpoint.filter(**kwargs): the records whose attributes equal the filter's.
Matching(kind, filter) ==
    {rec \in remote[kind] : \A f \in DOMAIN filter : rec[f] = filter[f]}

\* endpoint.get(**kwargs) raises ValueError when more than one record matches.
GetAmbiguous(kind, filter) == Cardinality(Matching(kind, filter)) > 1

\* endpoint.get(**kwargs): the one matching record, or None.
Get(kind, filter) ==
    IF Matching(kind, filter) = {} THEN None
    ELSE CHOOSE rec \in Matching(kind, filter) : TRUE

\* The remote rejects a create whose uniqueness key is taken.
RemoteAccepts(kind, payload) ==
    ~ \E rec \in remote[kind] : \A f \in UniqueKey(kind) : rec[f] = payload[f]

AllIds == UNION {Ids(remote, k) : k \in Kinds}

\* The identifier the remote gives the next record it creates.
NewId == IF AllIds = {} THEN 1 ELSE 1 + CHOOSE m \in AllIds : \A i \in AllIds : i <= m

\* endpoint.create(payload) answered with the new record.
Created(payload) == [id |-> NewId] @@ payload

\* A nested record's attribute (new_device.location.name): the record the
\* foreign key points at.
Nested(kind, id) == CHOOSE rec \in remote[kind] : rec.id = id

\* ---------------------------------------------------------------- helpers

Call(op, kind, result, id) == [op |-> op, kind |-> kind, result |-> result, id |-> id]

Issue(r, call) == calls' = [calls EXCEPT ![r] = Append(@, call)]

print(r, line) == stdout' = [stdout EXCEPT ![r] = Append(@, line)]

goto(r, label) == pc' = [pc EXCEPT ![r] = label]

NoLocals ==
    [nautobot_url |-> EnvUnset, nautobot_token |-> EnvUnset,
     loc_type |-> None, location |-> None, manufacturer |-> None,
     device_type |-> None, role |-> None, new_device |-> None]

Terminal == {"exit_0", "exit_1", "traceback"}

\* The process's exit status once it has ended (an uncaught exception ends
\* the interpreter with status 1).
ExitStatus(r) == IF pc[r] = "exit_0" THEN 0 ELSE 1

\* ---------------------------------------------------------------- Init

Init ==
    /\ \E present \in SUBSET (UNION {Seeds[k] : k \in Kinds}) :
          /\ Consistent([k \in Kinds |-> Seeds[k] \cap present])
          /\ remote = [k \in Kinds |-> Seeds[k] \cap present]
    /\ pc = [r \in Runs |-> "main"]
    /\ nb = [r \in Runs |-> FALSE]
    /\ locals = [r \in Runs |-> NoLocals]
    /\ calls = [r \in Runs |-> <<>>]
    /\ stdout = [r \in Runs |-> <<>>]

\* ---------------------------------------------------------------- main

\* Variant: the test written with `and`, which lets a run through with one
\* of the two variables missing.
missing_env_and(url, token) == (url = EnvUnset \/ url = "") /\ (token = EnvUnset \/ token = "")

\* `not nautobot_url or not nautobot_token`
missing_env(url, token) == (url = EnvUnset \/ url = "") \/ (token = EnvUnset \/ token = "")

\* main, up to the first remote call: read the environment, construct the client.
main_start(r) ==
    /\ pc[r] = "main"
    /\ \E url \in UrlValues, token \in TokenValues :
          /\ locals' = [locals EXCEPT ![r].nautobot_url = url, ![r].nautobot_token = token]
          /\ IF missing_env(url, token)
             THEN /\ print(r, <<"[ERROR] Missing NAUTOBOT_API_URL or NAUTOBOT_API_TOKEN environment variable.">>)
                  /\ goto(r, "exit_1")
                  /\ UNCHANGED nb
             ELSE /\ nb' = [nb EXCEPT ![r] = TRUE]
                  /\ goto(r, "location_types.get")
                  /\ UNCHANGED stdout
    /\ UNCHANGED <<remote, calls>>

\* ---------------------------------------------------------------- resolvers

\* An exception no handler catches: the interpreter prints a traceback (to
\* stderr) and the process ends.
uncaught(r, kind) ==
    /\ Issue(r, Call("get", kind, "raised", 0))
    /\ goto(r, "traceback")
    /\ UNCHANGED <<remote, nb, locals, stdout>>

\* The stage main runs after the resolver of `kind` has returned.
AfterStage(kind) ==
    CASE kind = "location_types" -> "locations.get"
      [] kind = "locations" -> "manufacturers.get"
      [] kind = "manufacturers" -> "device_types.get"
      [] kind = "device_types" -> "roles.get"
      [] kind = "roles" -> "devices.get"
      [] kind = "devices" -> "summary"

\* Variant: the handler prints the error and lacks sys.exit(1), so the
\* resolver returns and main goes on to the next stage.
create_failed_no_exit(r, kind, line) ==
    /\ Issue(r, Call("create", kind, "RequestError", 0))
    /\ print(r, line)
    /\ goto(r, AfterStage(kind))
    /\ UNCHANGED <<remote, nb, locals>>

\* Variant: the handler undoes the run's earlier creates before it exits.
create_failed_rollback(r, kind, line) ==
    /\ Issue(r, Call("create", kind, "RequestError", 0))
    /\ print(r, line)
    /\ goto(r, "exit_1")
    /\ remote' = [k \in Kinds |-> {rec \in remote[k] :
                      ~ \E i \in 1..Len(calls[r]) :
                          /\ calls[r][i].op = "create"
                          /\ calls[r][i].result = "returned"
                          /\ calls[r][i].id = rec.id}]
    /\ UNCHANGED <<nb, locals>>

\* `except RequestError as e: print(...); sys.exit(1)` around a create call.
create_failed(r, kind, line) ==
    /\ Issue(r, Call("create", kind, "RequestError", 0))
    /\ print(r, line)
    /\ goto(r, "exit_1")
    /\ UNCHANGED <<remote, nb, locals>>

\* The collection main's local variable `var` is resolved from.
KindOfVar(var) ==
    CASE var = "loc_type" -> "location_types"
      [] var = "location" -> "locations"
      [] var = "manufacturer" -> "manufacturers"
      [] var = "device_type" -> "device_types"
      [] var = "role" -> "roles"
      [] var = "new_device" -> "devices"

\* Variant: the resolver deletes the record it found (to recreate it later).
found_deleting(r, var, rec, label, line) ==
    /\ print(r, line)
    /\ locals' = [locals EXCEPT ![r][var] = rec]
    /\ goto(r, label)
    /\ remote' = [remote EXCEPT ![KindOfVar(var)] = @ \ {rec}]
    /\ UNCHANGED nb

\* `if <record>: print(...); return <record>`: the resolver hands the record
\* it found to main, which goes on to the next stage.
found(r, var, rec, label, line) ==
    /\ print(r, line)
    /\ locals' = [locals EXCEPT ![r][var] = rec]
    /\ goto(r, label)
    /\ UNCHANGED <<remote, nb>>

\* Variant: a resolver that only looks up, and ends the run when the record
\* is missing.
not_found_gives_up(r, label, line) ==
    /\ print(r, line)
    /\ goto(r, "exit_1")
    /\ UNCHANGED <<remote, nb, locals>>

\* The lookup returned None: announce the create call and go on to issue it.
not_found(r, label, line) ==
    /\ print(r, line)
    /\ goto(r, label)
    /\ UNCHANGED <<remote, nb, locals>>

\* get_or_create_location_type, the lookup and what follows it up to the
\* return or the create call.
get_or_create_location_type_get(r) ==
    /\ pc[r] = "location_types.get"
    /\ LET filter == [name |-> location_type_name] IN
       \/ IF GetAmbiguous("location_types", filter)
          THEN uncaught(r, "location_types")
          ELSE LET location_type == Get("location_types", filter) IN
               /\ Issue(r, Call("get", "location_types", "returned", location_type.id))
               /\ IF Truthy(location_type)
                  THEN found(r, "loc_type", location_type, "locations.get",
                             <<"[INFO] Found existing location type:", location_type.name>>)
                  ELSE not_found(r, "location_types.create",
                             <<"[INFO] Creating location type", location_type_name>>)
       \/ uncaught(r, "location_types")

\* get_or_create_location_type, the create call.
get_or_create_location_type_create(r) ==
    /\ pc[r] = "location_types.create"
    /\ LET payload == [name |-> location_type_name,
                       description |-> <<"Created by script for", location_type_name>>,
                       content_types |-> {"dcim.device"}] IN
       \/ /\ RemoteAccepts("location_types", payload)
          /\ remote' = [remote EXCEPT !["location_types"] = @ \cup {Created(payload)}]
          /\ Issue(r, Call("create", "location_types", "returned", NewId))
          /\ locals' = [locals EXCEPT ![r].loc_type = Created(payload)]
          /\ goto(r, "locations.get")
          /\ UNCHANGED <<nb, stdout>>
       \/ create_failed(r, "location_types", <<"[ERROR] Failed to create location type", location_type_name>>)

\* get_or_create_location, the lookup.
get_or_create_location_get(r) ==
    /\ pc[r] = "locations.get"
    /\ LET filter == [name |-> location_name] IN
       \/ IF GetAmbiguous("locations", filter)
          THEN uncaught(r, "locations")
          ELSE LET location == Get("locations", filter) IN
               /\ Issue(r, Call("get", "locations", "returned", location.id))
               /\ IF Truthy(location)
                  THEN found(r, "location", location, "manufacturers.get",
                             <<"[INFO] Found existing location:", location.name>>)
                  ELSE not_found(r, "locations.create",
                             <<"[INFO] Creating location", location_name, "with type", locals[r].loc_type.name>>)
       \/ uncaught(r, "locations")

\* get_or_create_location, the create call.
get_or_create_location_create(r) ==
    /\ pc[r] = "locations.create"
    /\ LET payload == [name |-> location_name,
                       location_type |-> locals[r].loc_type.id,
                       status |-> "Active"] IN
       \/ /\ RemoteAccepts("locations", payload)
          /\ remote' = [remote EXCEPT !["locations"] = @ \cup {Created(payload)}]
          /\ Issue(r, Call("create", "locations", "returned", NewId))
          /\ locals' = [locals EXCEPT ![r].location = Created(payload)]
          /\ goto(r, "manufacturers.get")
          /\ UNCHANGED <<nb, stdout>>
       \/ create_failed(r, "locations", <<"[ERROR] Failed to create location", location_name>>)

\* get_or_create_manufacturer, the lookup.
get_or_create_manufacturer_get(r) ==
    /\ pc[r] = "manufacturers.get"
    /\ LET filter == [name |-> manufacturer_name] IN
       \/ IF GetAmbiguous("manufacturers", filter)
          THEN uncaught(r, "manufacturers")
          ELSE LET manufacturer == Get("manufacturers", filter) IN
               /\ Issue(r, Call("get", "manufacturers", "returned", manufacturer.id))
               /\ IF Truthy(manufacturer)
                  THEN found(r, "manufacturer", manufacturer, "device_types.get",
                             <<"[INFO] Found existing manufacturer:", manufacturer.name>>)
                  ELSE not_found(r, "manufacturers.create",
                             <<"[INFO] Creating manufacturer", manufacturer_name>>)
       \/ uncaught(r, "manufacturers")

\* get_or_create_manufacturer, the create call.
get_or_create_manufacturer_create(r) ==
    /\ pc[r] = "manufacturers.create"
    /\ LET payload == [name |-> manufacturer_name] IN
       \/ /\ RemoteAccepts("manufacturers", payload)
          /\ remote' = [remote EXCEPT !["manufacturers"] = @ \cup {Created(payload)}]
          /\ Issue(r, Call("create", "manufacturers", "returned", NewId))
          /\ locals' = [locals EXCEPT ![r].manufacturer = Created(payload)]
          /\ goto(r, "device_types.get")
          /\ UNCHANGED <<nb, stdout>>
       \/ create_failed(r, "manufacturers", <<"[ERROR] Failed to create manufacturer", manufacturer_name>>)

\* Variant: no handler around the device-type lookup, as in the other five
\* resolvers; the error ends the run.
device_type_get_raises(r) ==
    /\ Issue(r, Call("get", "device_types", "RequestError", 0))
    /\ goto(r, "traceback")
    /\ UNCHANGED <<remote, nb, locals, stdout>>

\* `except RequestError: device_type = None` around the device-type lookup,
\* then the `if device_type:` test, which fails.
device_type_get_failed(r) ==
    /\ Issue(r, Call("get", "device_types", "RequestError", 0))
    /\ print(r, <<"[INFO] Creating device type", device_type_model,
                  "for manufacturer", locals[r].manufacturer.name>>)
    /\ goto(r, "device_types.create")
    /\ UNCHANGED <<remote, nb, locals>>

\* get_or_create_device_type, the lookup by model and manufacturer.
get_or_create_device_type_get(r) ==
    /\ pc[r] = "device_types.get"
    /\ LET filter == [model |-> device_type_model,
                      manufacturer |-> locals[r].manufacturer.id] IN
       \/ IF GetAmbiguous("device_types", filter)
          THEN uncaught(r, "device_types")
          ELSE LET device_type == Get("device_types", filter) IN
               /\ Issue(r, Call("get", "device_types", "returned", device_type.id))
               /\ IF Truthy(device_type)
                  THEN found(r, "device_type", device_type, "roles.get",
                             <<"[INFO] Found existing device type:", device_type.model>>)
                  ELSE not_found(r, "device_types.create",
                             <<"[INFO] Creating device type", device_type_model, "for manufacturer", locals[r].manufacturer.name>>)
       \/ device_type_get_failed(r)

\* get_or_create_device_type, the create call.
get_or_create_device_type_create(r) ==
    /\ pc[r] = "device_types.create"
    /\ LET payload == [model |-> device_type_model,
                       manufacturer |-> locals[r].manufacturer.id] IN
       \/ /\ RemoteAccepts("device_types", payload)
          /\ remote' = [remote EXCEPT !["device_types"] = @ \cup {Created(payload)}]
          /\ Issue(r, Call("create", "device_types", "returned", NewId))
          /\ locals' = [locals EXCEPT ![r].device_type = Created(payload)]
          /\ goto(r, "roles.get")
          /\ UNCHANGED <<nb, stdout>>
       \/ create_failed(r, "device_types", <<"[ERROR] Failed to create device type", device_type_model>>)

\* get_or_create_role, the lookup.
get_or_create_role_get(r) ==
    /\ pc[r] = "roles.get"
    /\ LET filter == [name |-> role_name] IN
       \/ IF GetAmbiguous("roles", filter)
          THEN uncaught(r, "roles")
          ELSE LET role == Get("roles", filter) IN
               /\ Issue(r, Call("get", "roles", "returned", role.id))
               /\ IF Truthy(role)
                  THEN found(r, "role", role, "devices.get",
                             <<"[INFO] Found existing role:", role.name>>)
                  ELSE not_found(r, "roles.create",
                             <<"[INFO] Creating role", role_name, "for devices">>)
       \/ uncaught(r, "roles")

\* get_or_create_role, the create call.
get_or_create_role_create(r) ==
    /\ pc[r] = "roles.create"
    /\ LET payload == [name |-> role_name,
                       description |-> <<"Device role for", role_name>>,
                       content_types |-> {"dcim.device"}] IN
       \/ /\ RemoteAccepts("roles", payload)
          /\ remote' = [remote EXCEPT !["roles"] = @ \cup {Created(payload)}]
          /\ Issue(r, Call("create", "roles", "returned", NewId))
          /\ locals' = [locals EXCEPT ![r].role = Created(payload)]
          /\ goto(r, "devices.get")
          /\ UNCHANGED <<nb, stdout>>
       \/ create_failed(r, "roles", <<"[ERROR] Failed to create role", role_name>>)

\* Variant: the existence check by name alone.
device_filter_name_only(name, location) == [name |-> name]

\* The existence check of create_device: by name and location.
device_filter(name, location) == [name |-> name, location |-> location.id]

\* create_device, the existence check.
create_device_get(r) ==
    /\ pc[r] = "devices.get"
    /\ LET filter == device_filter(device_name, locals[r].location) IN
       \/ IF GetAmbiguous("devices", filter)
          THEN uncaught(r, "devices")
          ELSE LET existing_device == Get("devices", filter) IN
               /\ Issue(r, Call("get", "devices", "returned", existing_device.id))
               /\ IF Truthy(existing_device)
                  THEN found(r, "new_device", existing_device, "summary",
                             <<"[WARNING] Device", device_name, "already exists at location", locals[r].location.name>>)
                  ELSE not_found(r, "devices.create",
                             <<"[INFO] Creating new device", device_name>>)
       \/ uncaught(r, "devices")

\* create_device, the create call.
create_device_create(r) ==
    /\ pc[r] = "devices.create"
    /\ LET payload == [name |-> device_name,
                       device_type |-> locals[r].device_type.id,
                       role |-> locals[r].role.id,
                       location |-> locals[r].location.id,
                       status |-> "Active"] IN
       \/ /\ RemoteAccepts("devices", payload)
          /\ remote' = [remote EXCEPT !["devices"] = @ \cup {Created(payload)}]
          /\ Issue(r, Call("create", "devices", "returned", NewId))
          /\ locals' = [locals EXCEPT ![r].new_device = Created(payload)]
          /\ goto(r, "summary")
          /\ UNCHANGED <<nb, stdout>>
       \/ create_failed(r, "devices", <<"[ERROR] Failed to create device", device_name>>)

\* Variant: the role and type lines print each other's attribute.
Summary_swapped(dev) ==
    [name |-> dev.name,
     location |-> Nested("locations", dev.location).name,
     role |-> Nested("device_types", dev.device_type).model,
     type |-> Nested("roles", dev.role).name,
     status |-> dev.status]

\* What main prints of the device it ends with.
Summary(dev) ==
    [name |-> dev.name,
     location |-> Nested("locations", dev.location).name,
     role |-> Nested("roles", dev.role).name,
     type |-> Nested("device_types", dev.device_type).model,
     status |-> dev.status]

\* main, after create_device has returned: print the result and end.
main_summary(r) ==
    /\ pc[r] = "summary"
    /\ IF Truthy(locals[r].new_device)
       THEN LET s == Summary(locals[r].new_device) IN
            stdout' = [stdout EXCEPT ![r] = @ \o
                 << <<"[SUCCESS] Device created or retrieved successfully:">>,
                    <<"  Name:", s.name>>, <<"  Location:", s.location>>,
                    <<"  Role:", s.role>>, <<"  Type:", s.type>>,
                    <<"  Status:", s.status>> >>]
       ELSE UNCHANGED stdout
    /\ goto(r, "exit_0")
    /\ UNCHANGED <<remote, nb, locals, calls>>

\* ---------------------------------------------------------------- Next

\* The script is run again only once the run before it has ended.
InTurn(r) == \A q \in Runs : q < r => pc[q] \in Terminal

Next ==
    \/ \E r \in Runs : InTurn(r) /\ main_start(r)
    \/ \E r \in Runs : InTurn(r) /\ get_or_create_location_type_get(r)
    \/ \E r \in Runs : InTurn(r) /\ get_or_create_location_type_create(r)
    \/ \E r \in Runs : InTurn(r) /\ get_or_create_location_get(r)
    \/ \E r \in Runs : InTurn(r) /\ get_or_create_location_create(r)
    \/ \E r \in Runs : InTurn(r) /\ get_or_create_manufacturer_get(r)
    \/ \E r \in Runs : InTurn(r) /\ get_or_create_manufacturer_create(r)
    \/ \E r \in Runs : InTurn(r) /\ get_or_create_device_type_get(r)
    \/ \E r \in Runs : InTurn(r) /\ get_or_create_device_type_create(r)
    \/ \E r \in Runs : InTurn(r) /\ get_or_create_role_get(r)
    \/ \E r \in Runs : InTurn(r) /\ get_or_create_role_create(r)
    \/ \E r \in Runs : InTurn(r) /\ create_device_get(r)
    \/ \E r \in Runs : InTurn(r) /\ create_device_create(r)
    \/ \E r \in Runs : InTurn(r) /\ main_summary(r)

Spec == Init /\ [][Next]_vars

\* Two simultaneous invocations of the script: the first two runs overlap in
\* time and their steps interleave freely; any further run starts once the
\* runs before it have ended.
Overlapping(r) == r <= 2 \/ InTurn(r)

NextConcurrent ==
    \/ \E r \in Runs : Overlapping(r) /\ main_start(r)
    \/ \E r \in Runs : Overlapping(r) /\ get_or_create_location_type_get(r)
    \/ \E r \in Runs : Overlapping(r) /\ get_or_create_location_type_create(r)
    \/ \E r \in Runs : Overlapping(r) /\ get_or_create_location_get(r)
    \/ \E r \in Runs : Overlapping(r) /\ get_or_create_location_create(r)
    \/ \E r \in Runs : Overlapping(r) /\ get_or_create_manufacturer_get(r)
    \/ \E r \in Runs : Overlapping(r) /\ get_or_create_manufacturer_create(r)
    \/ \E r \in Runs : Overlapping(r) /\ get_or_create_device_type_get(r)
    \/ \E r \in Runs : Overlapping(r) /\ get_or_create_device_type_create(r)
    \/ \E r \in Runs : Overlapping(r) /\ get_or_create_role_get(r)
    \/ \E r \in Runs : Overlapping(r) /\ get_or_create_role_create(r)
    \/ \E r \in Runs : Overlapping(r) /\ create_device_get(r)
    \/ \E r \in Runs : Overlapping(r) /\ create_device_create(r)
    \/ \E r \in Runs : Overlapping(r) /\ main_summary(r)

SpecConcurrent == Init /\ [][NextConcurrent]_vars

\* ---------------------------------------------------------------- properties

\* The dependency order of the six stages.
Order == <<"location_types", "locations", "manufacturers", "device_types", "roles", "devices">>

IsCreate(c) == c.op = "create"

IsGet(c) == c.op = "get"

Creates(r) == SelectSeq(calls[r], IsCreate)

Gets(r) == SelectSeq(calls[r], IsGet)

KindSeq(seq) == [i \in 1..Len(seq) |-> seq[i].kind]

\* The identifiers of the records run r has created.
CreatedBy(r) == {calls[r][i].id : i \in {j \in 1..Len(calls[r]) :
                     calls[r][j].op = "create" /\ calls[r][j].result = "returned"}}

\* The remote system held nothing when run r started: all it holds was
\* created by r or by a later run.
FreshFor(r) ==
    \A k \in Kinds : \A rec \in remote[k] :
        \E q \in Runs : q >= r /\ rec.id \in CreatedBy(q)

LastLines(r, n) == SubSeq(stdout[r], Len(stdout[r]) - n + 1, Len(stdout[r]))

ExpectedSummary ==
    << <<"[SUCCESS] Device created or retrieved successfully:">>,
       <<"  Name:", "myswitch001">>, <<"  Location:", "MyCampusLocation">>,
       <<"  Role:", "Access Switch">>, <<"  Type:", "C9300-48P">>,
       <<"  Status:", "Active">> >>

\* C2: a run that ends normally and started on an empty remote system has
\* issued exactly six create calls, in the order location type, location,
\* manufacturer, device type, role, device, each answered with a record, and
\* its last lines of output are the summary of myswitch001 at
\* MyCampusLocation, role Access Switch, type C9300-48P, status Active.
C2_FreshRunCreatesSixInOrder ==
    \A r \in Runs :
        (pc[r] = "exit_0" /\ FreshFor(r)) =>
            /\ KindSeq(Creates(r)) = Order
            /\ \A i \in 1..Len(Creates(r)) : Creates(r)[i].result = "returned"
            /\ Len(stdout[r]) >= Len(ExpectedSummary)
            /\ LastLines(r, Len(ExpectedSummary)) = ExpectedSummary

C2_Witness ==
    \E r \in Runs : pc[r] = "exit_0" /\ FreshFor(r) /\ Len(Creates(r)) = Len(Order)

\* C3: a create call answered with RequestError is the last call its run
\* issues, and the run has ended with exit status 1.
C3_FailedCreateEndsRun ==
    \A r \in Runs : \A i \in 1..Len(calls[r]) :
        (calls[r][i].op = "create" /\ calls[r][i].result = "RequestError") =>
            /\ i = Len(calls[r])
            /\ pc[r] = "exit_1"
            /\ ExitStatus(r) = 1

C3_Witness ==
    \E r \in Runs :
        /\ pc[r] = "exit_1"
        /\ Len(calls[r]) > 0
        /\ calls[r][Len(calls[r])] = Call("create", "manufacturers", "RequestError", 0)

\* C4: once main has read an environment in which the URL or the token is
\* unset or empty, the run has ended with exit status 1, has constructed no
\* client and has issued no call.
C4_MissingEnvExitsBeforeAnyCall ==
    \A r \in Runs :
        (/\ pc[r] # "main"
         /\ \/ locals[r].nautobot_url \in {EnvUnset, ""}
            \/ locals[r].nautobot_token \in {EnvUnset, ""}) =>
            /\ pc[r] = "exit_1"
            /\ ExitStatus(r) = 1
            /\ ~nb[r]
            /\ calls[r] = <<>>

C4_Witness ==
    \E r \in Runs :
        /\ pc[r] = "exit_1"
        /\ locals[r].nautobot_url = "https://nautobot.example"
        /\ locals[r].nautobot_token = ""

\* C5: create_device resolves the device by name and location.  A record its
\* lookup returns is the device of that name at the run's own location, never
\* a same-named device elsewhere; a lookup that returns None is followed by
\* the create call; and the record a create returns is a device of that name
\* at the run's location, held by the remote system next to every same-named
\* device at another location.
C5_DeviceKeyedByNameAndLocation ==
    \A r \in Runs : \A i \in 1..Len(calls[r]) :
        LET c == calls[r][i] IN
        /\ (c.op = "get" /\ c.kind = "devices" /\ c.result = "returned" /\ c.id # 0) =>
              \E d \in remote["devices"] :
                  d.id = c.id /\ d.name = device_name /\ d.location = locals[r].location.id
        /\ (c.op = "get" /\ c.kind = "devices" /\ c.result = "returned" /\ c.id = 0) =>
              IF i = Len(calls[r]) THEN pc[r] = "devices.create"
              ELSE calls[r][i + 1].op = "create" /\ calls[r][i + 1].kind = "devices"
        /\ (c.op = "create" /\ c.kind = "devices" /\ c.result = "returned") =>
              /\ locals[r].new_device \in remote["devices"]
              /\ locals[r].new_device.id = c.id
              /\ locals[r].new_device.name = device_name
              /\ locals[r].new_device.location = locals[r].location.id

C5_Witness ==
    \E r \in Runs :
        /\ pc[r] = "exit_0"
        /\ \E i \in 1..Len(calls[r]) :
              calls[r][i].op = "create" /\ calls[r][i].kind = "devices"
              /\ calls[r][i].result = "returned"
        /\ SeedOtherDevice \in remote["devices"]
        /\ locals[r].new_device.name = SeedOtherDevice.name
        /\ locals[r].new_device.location # SeedOtherDevice.location
        /\ locals[r].new_device \in remote["devices"]

\* C7: a device-type lookup answered with RequestError does not end the run:
\* the run is about to issue the device-type create call, or that create call
\* is the next call it issued.
C7_DeviceTypeLookupErrorIsNotFound ==
    \A r \in Runs : \A i \in 1..Len(calls[r]) :
        (calls[r][i] = Call("get", "device_types", "RequestError", 0)) =>
            IF i = Len(calls[r]) THEN pc[r] = "device_types.create"
            ELSE calls[r][i + 1].op = "create" /\ calls[r][i + 1].kind = "device_types"

C7_Witness ==
    \E r \in Runs : \E i \in 1..Len(calls[r]) :
        /\ calls[r][i] = Call("get", "device_types", "RequestError", 0)
        /\ i < Len(calls[r])
        /\ calls[r][i + 1].op = "create" /\ calls[r][i + 1].kind = "device_types"
        /\ calls[r][i + 1].result = "returned"
        /\ pc[r] = "exit_0"

\* The record each resolved local variable of run r holds is a record of the
\* remote system, as the remote system holds it.
HandlesAreRemoteRecords(r) ==
    \A var \in {"loc_type", "location", "manufacturer", "device_type", "role", "new_device"} :
        Truthy(locals[r][var]) => locals[r][var] \in remote[KindOfVar(var)]

\* C8: in every run each kind is created at most once, every call is a get or
\* a create, the record a resolver hands back is the remote system's record
\* unchanged, and no step removes or alters a record the remote system holds.
C8_CreateOnceAndNeverModify ==
    /\ [](\A r \in Runs :
            /\ \A i, j \in 1..Len(Creates(r)) :
                  Creates(r)[i].kind = Creates(r)[j].kind => i = j
            /\ \A i \in 1..Len(calls[r]) : calls[r][i].op \in {"get", "create"}
            /\ HandlesAreRemoteRecords(r))
    /\ [][\A k \in Kinds : remote[k] \subseteq remote'[k]]_vars

C8_Witness ==
    \E r \in Runs :
        /\ pc[r] = "exit_0"
        /\ locals[r].loc_type = SeedLocationType
        /\ locals[r].role = SeedRole
        /\ SeedLocationType \in remote["location_types"]
        /\ SeedRole \in remote["roles"]
        /\ Len(Creates(r)) > 0

\* C9: a run that ended on a failed create issued exactly one create call of
\* that kind and no other failed create, and every record it created before
\* is held by the remote system.
C9_NoRetryNoRollback ==
    \A r \in Runs :
        (/\ pc[r] = "exit_1"
         /\ Len(calls[r]) > 0
         /\ calls[r][Len(calls[r])].op = "create") =>
            LET failed == calls[r][Len(calls[r])] IN
            /\ failed.result = "RequestError"
            /\ Cardinality({i \in 1..Len(calls[r]) :
                   calls[r][i].op = "create" /\ calls[r][i].kind = failed.kind}) = 1
            /\ Cardinality({i \in 1..Len(calls[r]) :
                   calls[r][i].op = "create" /\ calls[r][i].result = "RequestError"}) = 1
            /\ \A id \in CreatedBy(r) : \E k \in Kinds : id \in Ids(remote, k)

C9_Witness ==
    \E r \in Runs :
        /\ pc[r] = "exit_1"
        /\ Len(calls[r]) > 0
        /\ calls[r][Len(calls[r])] = Call("create", "device_types", "RequestError", 0)
        /\ Cardinality(CreatedBy(r)) >= 2
        /\ \A id \in CreatedBy(r) : \E k \in Kinds : id \in Ids(remote, k)

\* The number of create calls run r has issued for a kind.
CreateCalls(r, kind) ==
    Cardinality({i \in 1..Len(calls[r]) :
        calls[r][i].op = "create" /\ calls[r][i].kind = kind})

LookedUp(r, kind) ==
    \E i \in 1..Len(calls[r]) : calls[r][i].op = "get" /\ calls[r][i].kind = kind

\* The resolver of a kind has returned a record to main in run r.
Resolved(r, kind) ==
    \E var \in DOMAIN NoLocals \ {"nautobot_url", "nautobot_token"} :
        KindOfVar(var) = kind /\ Truthy(locals[r][var])

\* C1: a resolver called again with the same key, in the run that follows a
\* run in which it returned, issues no create call, and the two invocations
\* issue at most one create call between them.
C1_ResolverIdempotent ==
    \A kind \in Kinds : \A r \in Runs :
        (r + 1 \in Runs /\ Resolved(r, kind) /\ LookedUp(r + 1, kind)) =>
            /\ CreateCalls(r + 1, kind) = 0
            /\ CreateCalls(r, kind) + CreateCalls(r + 1, kind) <= 1

\* C6: the run that follows a run which ended normally issues no create call;
\* when it ends normally too it has issued the six lookups in order and has
\* printed the same summary.
C6_SecondRunOnlyLooksUp ==
    \A r \in Runs :
        (r + 1 \in Runs /\ pc[r] = "exit_0") =>
            /\ Creates(r + 1) = <<>>
            /\ pc[r + 1] = "exit_0" =>
                  /\ KindSeq(Gets(r + 1)) = Order
                  /\ LastLines(r + 1, Len(ExpectedSummary)) = LastLines(r, Len(ExpectedSummary))

\* A lookup that did not hand the run a record: None, or the device-type
\* lookup's swallowed RequestError.
ObservedNotFound(c, kind) ==
    /\ c.op = "get" /\ c.kind = kind
    /\ \/ c.result = "returned" /\ c.id = 0
       \/ c.result = "RequestError"

\* Where a run stands when it is about to issue the create call of a kind.
CreateStage(kind) ==
    CASE kind = "location_types" -> "location_types.create"
      [] kind = "locations" -> "locations.create"
      [] kind = "manufacturers" -> "manufacturers.create"
      [] kind = "device_types" -> "device_types.create"
      [] kind = "roles" -> "roles.create"
      [] kind = "devices" -> "devices.create"

\* C10: with runs that overlap, a run decides to create on its own lookup
\* alone: every create call it issues follows directly on its own lookup of
\* the kind, which did not return a record, and a lookup that returned None
\* is followed by the create call whatever the other run has done to the
\* remote system since.
C10_CreateRestsOnOwnLookup ==
    \A r \in Runs : \A i \in 1..Len(calls[r]) :
        /\ calls[r][i].op = "create" =>
              i > 1 /\ ObservedNotFound(calls[r][i - 1], calls[r][i].kind)
        /\ (calls[r][i].op = "get" /\ calls[r][i].result = "returned" /\ calls[r][i].id = 0) =>
              IF i = Len(calls[r])
              THEN pc[r] = CreateStage(calls[r][i].kind)
              ELSE calls[r][i + 1].op = "create" /\ calls[r][i + 1].kind = calls[r][i].kind

\* Two runs have both looked a kind up, both got None, and both issued the
\* create call.
C10_Witness ==
    \E r1, r2 \in Runs : \E kind \in Kinds :
        /\ r1 # r2
        /\ \E i \in 2..Len(calls[r1]) :
              /\ calls[r1][i].op = "create" /\ calls[r1][i].kind = kind
              /\ calls[r1][i - 1] = Call("get", kind, "returned", 0)
        /\ \E j \in 2..Len(calls[r2]) :
              /\ calls[r2][j].op = "create" /\ calls[r2][j].kind = kind
              /\ calls[r2][j - 1] = Call("get", kind, "returned", 0)

====
